---- MODULE Spec2Model ----
(***************************************************************************)
(* Verification model of the language-parsing core of codanna:             *)
(*   - PythonInheritanceResolver   (src/src/parsing/python/resolution.rs)  *)
(*   - PythonResolutionContext     (src/src/parsing/python/resolution.rs)  *)
(*   - NixResolutionContext        (src/src/parsing/nix/resolution.rs)     *)
(*   - NixParser tree walk         (src/src/parsing/nix/parser.rs)         *)
(*   - NixInheritanceResolver      (src/src/parsing/nix/resolution.rs)     *)
(*   - NixBehavior                 (src/src/parsing/nix/behavior.rs)       *)
(*   - CParserAudit                (src/src/parsing/c/audit.rs)            *)
(* Each component has its own specification (SpecPyInh, SpecPyMethods,     *)
(* SpecPyCtx, SpecPyResolve, SpecNixCtx, SpecNixParse, SpecNixReparse,     *)
(* SpecNixInh, SpecNixInhNamed, SpecImport, SpecConfigure, SpecAudit); the *)
(* variables of the other components are left unchanged by it.             *)
(* SpecDeclarations runs either resolution context or the parser.          *)
(***************************************************************************)
EXTENDS Integers, Sequences, FiniteSets, TLC

VARIABLES
    \* PythonInheritanceResolver
    class_bases, class_methods, mro_cache,
    \* PythonResolutionContext
    local_scope, enclosing_scope, global_scope, imported_symbols,
    builtin_scope, scope_stack,
    \* history of PythonResolutionContext: one entry per scope_stack entry
    py_frames,
    \* NixResolutionContext
    scopes, scope_types, let_contexts, with_contexts, rec_contexts,
    \* history of NixResolutionContext: names bound at Local level, per scope
    nix_local,
    \* NixParser.parse: pending work of the recursive walk, SymbolCounter,
    \* the symbol vector, and the syntax tree as far as it has been visited
    walk, counter, symbols, nextNode, decls,
    \* the caller of parse(): the calls it will still make, the nodes its
    \* further codes may have, the code of the current call as far as the
    \* walk has read it (kept only if another call may follow), and history:
    \* the ids of the symbols earlier calls returned, the result of the
    \* previous call when the current call parses the same code again, the
    \* counter value at the start of the current call
    calls, room, tree, keep, issued, previous_run, start,
    \* NixInheritanceResolver, and the (child, parent) names its
    \* add_inheritance was called with (history)
    merge_relationships, with_relationships, composition_relationships,
    named_relation,
    \* one call of a function that only computes: its arguments, and what it
    \* returned (Pending until it has)
    call, result

pyInhVars == <<class_bases, class_methods, mro_cache>>
pyCtxVars == <<local_scope, enclosing_scope, global_scope, imported_symbols,
               builtin_scope, scope_stack, py_frames>>
nixCtxVars == <<scopes, scope_types, let_contexts, with_contexts,
                rec_contexts, nix_local>>
nixParseVars == <<walk, counter, symbols, nextNode, decls,
                  calls, room, tree, keep, issued, previous_run, start>>
nixInhVars == <<merge_relationships, with_relationships,
                composition_relationships, named_relation>>
callVars == <<call, result>>

vars == <<pyInhVars, pyCtxVars, nixCtxVars, nixParseVars, nixInhVars, callVars>>

----------------------------------------------------------------------------
(* Maps (HashMap<String, SymbolId>) are functions on the set of their keys. *)

EmptyMap == [k \in {} |-> 0]

Insert(m, k, v) == [x \in (DOMAIN m) \cup {k} |-> IF x = k THEN v ELSE m[x]]

\* Option<SymbolId>: None is 0, Some(id) is id >= 1
None == 0

Get(m, k) == IF k \in DOMAIN m THEN m[k] ELSE None

Last(s) == s[Len(s)]

Front(s) == SubSeq(s, 1, Len(s) - 1)

Contains(s, e) == \E i \in 1..Len(s) : s[i] = e

SeqsUpTo(S, n) == UNION {[1..k -> S] : k \in 0..n}

----------------------------------------------------------------------------
(* Bounds *)

MaxEdges == 4       \* entries held by class_bases and class_methods in total
MaxBasesArg == 2    \* length of the bases vector given to add_class
PyMaxDepth == 3     \* entries of scope_stack (PythonResolutionContext)
NixMaxDepth == 3    \* entries of scopes (NixResolutionContext used directly)
MaxNodes == 5       \* nodes of the syntax trees given to NixParser.parse
MaxBindings == 2    \* bindings of one let expression or attribute set
MaxKids == 1        \* children of a node the parser has no arm for
MaxParses == 3      \* calls of NixParser.parse on one SymbolCounter
MaxReparseNodes == 4 \* nodes of the syntax trees given to these calls
MaxRelations == 3   \* relationship entries held by NixInheritanceResolver
MaxPathLen == 7     \* characters of an import path
MaxModulePathLen == 3 \* characters of a symbol module path

----------------------------------------------------------------------------
(* PythonInheritanceResolver *)

Classes == {"C", "A", "B", "X"}

Kinds == {"extends", "inherits", "implements"}

\* result of a calculate_mro call that never returns (unbounded recursion)
Diverges == <<"<no return>">>

PyInhNew ==
    /\ class_bases = EmptyMap
    /\ class_methods = EmptyMap
    /\ mro_cache = EmptyMap

RECURSIVE SumLen(_, _)
SumLen(m, ks) ==
    IF ks = {} THEN 0
    ELSE LET k == CHOOSE x \in ks : TRUE
         IN Len(m[k]) + SumLen(m, ks \ {k})

TotalBases(cb) == SumLen(cb, DOMAIN cb)

\* inner loop of calculate_mro: push every class of base_mro not yet in mro
RECURSIVE push_missing(_, _, _)
push_missing(mro, base_mro, i) ==
    IF i > Len(base_mro) THEN mro
    ELSE push_missing(IF Contains(mro, base_mro[i]) THEN mro
                      ELSE Append(mro, base_mro[i]),
                      base_mro, i + 1)

\* calculate_mro with its recursion depth made explicit: a call chain
\* longer than the number of classes repeats a class, and since the
\* call does not change the resolver it then recurses for ever.
RECURSIVE calculate_mro_at(_, _, _, _)
RECURSIVE mro_over_bases(_, _, _, _, _, _)
calculate_mro_at(cb, cache, class_name, fuel) ==
    IF class_name \in DOMAIN cache THEN cache[class_name]
    ELSE IF fuel = 0 THEN Diverges
    ELSE IF class_name \in DOMAIN cb
         THEN mro_over_bases(cb, cache, <<class_name>>, cb[class_name], 1, fuel)
         ELSE <<class_name>>

mro_over_bases(cb, cache, mro, bases, i, fuel) ==
    IF i > Len(bases) THEN mro
    ELSE LET base_mro == calculate_mro_at(cb, cache, bases[i], fuel - 1)
         IN IF base_mro = Diverges THEN Diverges
            ELSE mro_over_bases(cb, cache, push_missing(mro, base_mro, 1),
                                bases, i + 1, fuel)

calculate_mro(class_name) ==
    calculate_mro_at(class_bases, mro_cache, class_name, Cardinality(Classes))

get_inheritance_chain(type_name) == calculate_mro(type_name)

is_subtype(child, parent) ==
    LET mro == calculate_mro(child)
    IN IF mro = Diverges THEN Diverges ELSE <<Contains(mro, parent)>>

add_inheritance(child, parent, kind) ==
    /\ IF kind = "extends" \/ kind = "inherits"
       THEN /\ TotalBases(class_bases) + TotalBases(class_methods) < MaxEdges
            /\ class_bases' =
                 Insert(class_bases, child,
                        Append(IF child \in DOMAIN class_bases
                               THEN class_bases[child] ELSE <<>>, parent))
            /\ mro_cache' = EmptyMap
       ELSE UNCHANGED <<class_bases, mro_cache>>
    /\ UNCHANGED <<class_methods, pyCtxVars, nixCtxVars, nixParseVars, nixInhVars, callVars>>

\* add_class that stores the class and its bases as the cached resolution
\* order of the class, and leaves the rest of the cache as it is
add_class_caching(class_name, bases) ==
    /\ TotalBases(class_bases) + TotalBases(class_methods)
         - (IF class_name \in DOMAIN class_bases
            THEN Len(class_bases[class_name]) ELSE 0)
         + Len(bases) <= MaxEdges
    /\ class_bases' = Insert(class_bases, class_name, bases)
    /\ mro_cache' = Insert(mro_cache, class_name,
                           push_missing(<<class_name>>, bases, 1))
    /\ UNCHANGED <<class_methods, pyCtxVars, nixCtxVars, nixParseVars, nixInhVars, callVars>>

add_class(class_name, bases) ==
    /\ TotalBases(class_bases) + TotalBases(class_methods)
         - (IF class_name \in DOMAIN class_bases
            THEN Len(class_bases[class_name]) ELSE 0)
         + Len(bases) <= MaxEdges
    /\ class_bases' = Insert(class_bases, class_name, bases)
    /\ mro_cache' = EmptyMap
    /\ UNCHANGED <<class_methods, pyCtxVars, nixCtxVars, nixParseVars, nixInhVars, callVars>>

\* method names, and the method vectors given to add_type_methods
Methods == {"foo", "bar"}

MethodLists == SeqsUpTo(Methods, 2) \ {<<>>}

\* Option<String>: None is the empty sequence, Some(c) is <<c>>
NoClass == <<>>

add_class_methods(class_name, methods) ==
    /\ TotalBases(class_bases) + TotalBases(class_methods)
         - (IF class_name \in DOMAIN class_methods
            THEN Len(class_methods[class_name]) ELSE 0)
         + Len(methods) <= MaxEdges
    /\ class_methods' = Insert(class_methods, class_name, methods)
    /\ UNCHANGED <<class_bases, mro_cache>>
    /\ UNCHANGED <<pyCtxVars, nixCtxVars, nixParseVars, nixInhVars, callVars>>

\* for class in &mro, from index i: the first class that has the method
RECURSIVE first_with_method(_, _, _)
first_with_method(mro, method_name, i) ==
    IF i > Len(mro) THEN NoClass
    ELSE IF mro[i] \in DOMAIN class_methods
            /\ Contains(class_methods[mro[i]], method_name)
         THEN <<mro[i]>>
         ELSE first_with_method(mro, method_name, i + 1)

resolve_method(type_name, method_name) ==
    LET mro == calculate_mro(type_name)
    IN IF mro = Diverges THEN Diverges
       ELSE first_with_method(mro, method_name, 1)

\* the inner loop of get_all_methods without its contains test
RECURSIVE push_methods_all(_, _, _)
push_methods_all(all_methods, methods, i) ==
    IF i > Len(methods) THEN all_methods
    ELSE push_methods_all(Append(all_methods, methods[i]), methods, i + 1)

\* the inner loop of get_all_methods
RECURSIVE push_methods(_, _, _)
push_methods(all_methods, methods, i) ==
    IF i > Len(methods) THEN all_methods
    ELSE push_methods(IF Contains(all_methods, methods[i]) THEN all_methods
                      ELSE Append(all_methods, methods[i]),
                      methods, i + 1)

\* for class in &mro, from index i
RECURSIVE collect_methods(_, _, _)
collect_methods(mro, all_methods, i) ==
    IF i > Len(mro) THEN all_methods
    ELSE collect_methods(mro,
                         IF mro[i] \in DOMAIN class_methods
                         THEN push_methods(all_methods, class_methods[mro[i]], 1)
                         ELSE all_methods,
                         i + 1)

get_all_methods(type_name) ==
    LET mro == calculate_mro(type_name)
    IN IF mro = Diverges THEN Diverges ELSE collect_methods(mro, <<>>, 1)

----------------------------------------------------------------------------
(* PythonResolutionContext *)

\* A name is the sequence of its '.'-separated parts: "x" is <<"x">> and
\* "x.y" is <<"x", "y">>.  name.contains('.') is Len(name) > 1.
PyKeys == {<<"x">>}

PyQueries == PyKeys \cup {<<"y">>, <<"x", "y">>, <<"x", "x">>, <<"x", "x", "x">>}

\* symbol ids handed to the resolution contexts by their clients
Ids == {1, 2}

ScopeTypes == {"Function", "Class", "Block"}

ScopeLevels == {"Local", "Module", "Package", "Global"}

PyCtxNew ==
    /\ local_scope = EmptyMap
    /\ enclosing_scope = EmptyMap
    /\ global_scope = EmptyMap
    /\ imported_symbols = EmptyMap
    /\ builtin_scope = EmptyMap
    /\ scope_stack = <<>>
    /\ py_frames = <<>>

\* py_lookup with the imported symbols consulted before the module scope
py_lookup_imports_first(l, e, g, imp, b, name) ==
    IF name \in DOMAIN l THEN l[name]
    ELSE IF name \in DOMAIN e THEN e[name]
    ELSE IF name \in DOMAIN imp THEN imp[name]
    ELSE IF name \in DOMAIN g THEN g[name]
    ELSE IF name \in DOMAIN b THEN b[name]
    ELSE None

\* resolve, steps 1 to 5 in the maps given
py_lookup(l, e, g, imp, b, name) ==
    IF name \in DOMAIN l THEN l[name]
    ELSE IF name \in DOMAIN e THEN e[name]
    ELSE IF name \in DOMAIN g THEN g[name]
    ELSE IF name \in DOMAIN imp THEN imp[name]
    ELSE IF name \in DOMAIN b THEN b[name]
    ELSE None

RECURSIVE py_resolve_in(_, _, _, _, _, _)
py_resolve_in(l, e, g, imp, b, name) ==
    LET found == py_lookup(l, e, g, imp, b, name)
    IN IF found # None THEN found
       ELSE IF Len(name) > 1 /\ Len(name) = 2
            THEN IF py_resolve_in(l, e, g, imp, b, <<name[1]>>) # None
                 THEN py_resolve_in(l, e, g, imp, b, <<name[2]>>)
                 ELSE None
            ELSE None

\* resolve returning, for a qualified name, what its first part resolves to
py_resolve_first_part(name) ==
    IF Len(name) = 2 /\ py_lookup(local_scope, enclosing_scope, global_scope,
                                  imported_symbols, builtin_scope, name) = None
    THEN py_resolve_in(local_scope, enclosing_scope, global_scope,
                       imported_symbols, builtin_scope, <<name[1]>>)
    ELSE py_resolve_in(local_scope, enclosing_scope, global_scope,
                       imported_symbols, builtin_scope, name)

py_resolve(name) ==
    py_resolve_in(local_scope, enclosing_scope, global_scope,
                  imported_symbols, builtin_scope, name)

\* the same query in the next state
py_resolve_next(name) ==
    py_resolve_in(local_scope', enclosing_scope', global_scope',
                  imported_symbols', builtin_scope', name)

\* union of two maps, the entries of m winning (HashMap insert of each)
Overlay(m, base) ==
    [x \in (DOMAIN m) \cup (DOMAIN base) |->
        IF x \in DOMAIN m THEN m[x] ELSE base[x]]

\* History: py_frames[i] belongs to scope_stack[i]; "added" holds the
\* bindings inserted into local_scope while that entry was the top of the
\* stack, "saved" the local_scope at the moment a Function entry was pushed.
RecordLocal(name, id) ==
    IF py_frames = <<>> THEN py_frames
    ELSE [py_frames EXCEPT ![Len(py_frames)].added = Insert(@, name, id)]

py_add_symbol(name, symbol_id, scope_level) ==
    /\ CASE scope_level = "Local" ->
              /\ local_scope' = Insert(local_scope, name, symbol_id)
              /\ py_frames' = RecordLocal(name, symbol_id)
              /\ UNCHANGED <<global_scope, imported_symbols>>
         [] scope_level = "Module" ->
              /\ global_scope' = Insert(global_scope, name, symbol_id)
              /\ UNCHANGED <<local_scope, imported_symbols, py_frames>>
         [] scope_level = "Package" ->
              /\ imported_symbols' = Insert(imported_symbols, name, symbol_id)
              /\ UNCHANGED <<local_scope, global_scope, py_frames>>
         [] scope_level = "Global" ->
              /\ global_scope' = Insert(global_scope, name, symbol_id)
              /\ UNCHANGED <<local_scope, imported_symbols, py_frames>>
    /\ UNCHANGED <<enclosing_scope, builtin_scope, scope_stack>>
    /\ UNCHANGED <<pyInhVars, nixCtxVars, nixParseVars, nixInhVars, callVars>>

add_symbol_python(name, symbol_id, is_global) ==
    /\ IF is_global \/ scope_stack = <<>> \/ Len(scope_stack) = 1
       THEN /\ global_scope' = Insert(global_scope, name, symbol_id)
            /\ UNCHANGED <<local_scope, py_frames>>
       ELSE /\ local_scope' = Insert(local_scope, name, symbol_id)
            /\ py_frames' = RecordLocal(name, symbol_id)
            /\ UNCHANGED global_scope
    /\ UNCHANGED <<enclosing_scope, imported_symbols, builtin_scope,
                   scope_stack>>
    /\ UNCHANGED <<pyInhVars, nixCtxVars, nixParseVars, nixInhVars, callVars>>

\* push_enclosing_scope: the maps after the call
push_enclosing_scope_local == EmptyMap

push_enclosing_scope_enclosing == Overlay(local_scope, enclosing_scope)

py_enter_scope(scope_type) ==
    /\ Len(scope_stack) < PyMaxDepth
    /\ IF scope_type = "Function" /\ scope_stack # <<>>
       THEN /\ local_scope' = push_enclosing_scope_local
            /\ enclosing_scope' = push_enclosing_scope_enclosing
       ELSE UNCHANGED <<local_scope, enclosing_scope>>
    /\ scope_stack' = Append(scope_stack, scope_type)
    /\ py_frames' = Append(py_frames, [added |-> EmptyMap, saved |-> IF scope_type = "Function" THEN local_scope
                                        ELSE EmptyMap])
    /\ UNCHANGED <<global_scope, imported_symbols, builtin_scope>>
    /\ UNCHANGED <<pyInhVars, nixCtxVars, nixParseVars, nixInhVars, callVars>>

\* exit_scope of a Function entry: clear_local_scope, pop_enclosing_scope
\* exit_scope leaving the locals of the exited function in place
exit_function_local_kept == local_scope

exit_function_local == EmptyMap

exit_function_enclosing == EmptyMap

py_exit_scope ==
    /\ IF scope_stack # <<>>
       THEN /\ scope_stack' = Front(scope_stack)
            /\ py_frames' = Front(py_frames)
            /\ IF Last(scope_stack) = "Function"
               THEN /\ local_scope' = exit_function_local
                    /\ enclosing_scope' = exit_function_enclosing
               ELSE UNCHANGED <<local_scope, enclosing_scope>>
       ELSE UNCHANGED <<scope_stack, py_frames, local_scope, enclosing_scope>>
    /\ UNCHANGED <<global_scope, imported_symbols, builtin_scope>>
    /\ UNCHANGED <<pyInhVars, nixCtxVars, nixParseVars, nixInhVars, callVars>>

\* index of the innermost Function entry of the stack, 0 if there is none
InnermostFunction(st) ==
    IF \E i \in 1..Len(st) : st[i] = "Function"
    THEN CHOOSE i \in 1..Len(st) :
            st[i] = "Function" /\ \A j \in (i+1)..Len(st) : st[j] # "Function"
    ELSE 0

\* clear_local_scope called by a client: the bindings it drops are those of
\* the entries that share local_scope (the innermost function and above)
py_clear_local_scope ==
    /\ local_scope' = EmptyMap
    /\ py_frames' =
         [i \in 1..Len(py_frames) |->
            IF i >= InnermostFunction(scope_stack)
            THEN [py_frames[i] EXCEPT !.added = EmptyMap]
            ELSE py_frames[i]]
    /\ UNCHANGED <<enclosing_scope, global_scope, imported_symbols,
                   builtin_scope, scope_stack>>
    /\ UNCHANGED <<pyInhVars, nixCtxVars, nixParseVars, nixInhVars, callVars>>

----------------------------------------------------------------------------
(* NixResolutionContext.  The operations are functions from a context to a  *)
(* context, so that the parser can apply several of them in one step.  The  *)
(* field nix_local is history: nix_local[i] is the set of names whose       *)
(* binding in scopes[i] was made by add_symbol at Local level.              *)

NixNames == {"a", "b"}

NixScopeTypes == {"Global", "LetIn", "With", "RecursiveAttrSet", "Function",
                  "AttrSet"}

GenericScopeTypes == {"Function", "Block", "Class", "Module", "Global",
                      "Package", "Namespace"}

Pop(s) == IF s = <<>> THEN s ELSE Front(s)

Ctx == [scopes |-> scopes, scope_types |-> scope_types,
        let_contexts |-> let_contexts, with_contexts |-> with_contexts,
        rec_contexts |-> rec_contexts, nix_local |-> nix_local]

SetCtx(c) ==
    /\ scopes' = c.scopes
    /\ scope_types' = c.scope_types
    /\ let_contexts' = c.let_contexts
    /\ with_contexts' = c.with_contexts
    /\ rec_contexts' = c.rec_contexts
    /\ nix_local' = c.nix_local

\* NixResolutionContext::new
NixCtxNew ==
    [scopes |-> <<EmptyMap>>, scope_types |-> <<"Global">>,
     let_contexts |-> <<>>, with_contexts |-> <<>>, rec_contexts |-> <<>>,
     nix_local |-> <<{}>>]

\* NixParser.resolution_context = None
NixCtxNone ==
    [scopes |-> <<>>, scope_types |-> <<>>,
     let_contexts |-> <<>>, with_contexts |-> <<>>, rec_contexts |-> <<>>,
     nix_local |-> <<>>]

push_scope(c, scope_type, scope) ==
    [c EXCEPT !.scope_types = Append(@, scope_type),
              !.scopes = Append(@, scope),
              !.nix_local = Append(@, {})]

pop_scope(c) ==
    [c EXCEPT !.scope_types = Pop(@),
              !.scopes = Pop(@),
              !.nix_local = Pop(@)]

TopType(c) == IF c.scope_types = <<>> THEN "none" ELSE Last(c.scope_types)

enter_let_scope(c) ==
    push_scope([c EXCEPT !.let_contexts = Append(@, EmptyMap)],
               "LetIn", EmptyMap)

\* exit_let_scope popping whatever scope is on top
exit_let_scope_unchecked(c) ==
    [pop_scope(c) EXCEPT !.let_contexts = Pop(@)]

exit_let_scope(c) ==
    IF TopType(c) = "LetIn"
    THEN [pop_scope(c) EXCEPT !.let_contexts = Pop(@)]
    ELSE c

enter_with_scope(c, attr_symbols) ==
    push_scope([c EXCEPT !.with_contexts = Append(@, attr_symbols)],
               "With", EmptyMap)

\* exit_with_scope leaving the with scope in place
exit_with_scope_kept(c) == c

exit_with_scope(c) ==
    IF TopType(c) = "With"
    THEN [pop_scope(c) EXCEPT !.with_contexts = Pop(@)]
    ELSE c

enter_attrset_scope(c, is_recursive) ==
    IF is_recursive
    THEN push_scope([c EXCEPT !.rec_contexts = Append(@, EmptyMap)],
                    "RecursiveAttrSet", EmptyMap)
    ELSE push_scope(c, "AttrSet", EmptyMap)

exit_attrset_scope(c) ==
    IF TopType(c) = "RecursiveAttrSet"
    THEN [pop_scope(c) EXCEPT !.rec_contexts = Pop(@)]
    ELSE IF TopType(c) = "AttrSet" THEN pop_scope(c)
    ELSE c

\* the function scope built from params, a sequence of <<name, id>>
RECURSIVE function_scope(_, _, _)
function_scope(m, params, i) ==
    IF i > Len(params) THEN m
    ELSE function_scope(Insert(m, params[i][1], params[i][2]), params, i + 1)

enter_function_scope(c, params) ==
    push_scope(c, "Function", function_scope(EmptyMap, params, 1))

exit_function_scope(c) ==
    IF TopType(c) = "Function" THEN pop_scope(c) ELSE c

\* add_recursive_symbol that records nothing
add_recursive_symbol_dropped(c, name, symbol_id) == c

add_recursive_symbol(c, name, symbol_id) ==
    IF c.rec_contexts # <<>>
    THEN [c EXCEPT !.rec_contexts[Len(c.rec_contexts)] =
                       Insert(@, name, symbol_id)]
    ELSE c

\* for ctx in maps.iter().rev(), starting at index i
RECURSIVE find_rev(_, _, _)
find_rev(maps, name, i) ==
    IF i < 1 THEN None
    ELSE IF name \in DOMAIN maps[i] THEN maps[i][name]
    ELSE find_rev(maps, name, i - 1)

\* resolve_nix_symbol with the rec contexts consulted before the with contexts
resolve_nix_symbol_rec_first(c, name) ==
    IF c.scopes # <<>> /\ name \in DOMAIN Last(c.scopes)
    THEN Last(c.scopes)[name]
    ELSE IF find_rev(c.let_contexts, name, Len(c.let_contexts)) # None
    THEN find_rev(c.let_contexts, name, Len(c.let_contexts))
    ELSE IF find_rev(c.rec_contexts, name, Len(c.rec_contexts)) # None
    THEN find_rev(c.rec_contexts, name, Len(c.rec_contexts))
    ELSE IF find_rev(c.with_contexts, name, Len(c.with_contexts)) # None
    THEN find_rev(c.with_contexts, name, Len(c.with_contexts))
    ELSE find_rev(c.scopes, name, Len(c.scopes) - 1)

resolve_nix_symbol(c, name) ==
    IF c.scopes # <<>> /\ name \in DOMAIN Last(c.scopes)
    THEN Last(c.scopes)[name]
    ELSE IF find_rev(c.let_contexts, name, Len(c.let_contexts)) # None
    THEN find_rev(c.let_contexts, name, Len(c.let_contexts))
    ELSE IF find_rev(c.with_contexts, name, Len(c.with_contexts)) # None
    THEN find_rev(c.with_contexts, name, Len(c.with_contexts))
    ELSE IF find_rev(c.rec_contexts, name, Len(c.rec_contexts)) # None
    THEN find_rev(c.rec_contexts, name, Len(c.rec_contexts))
    ELSE find_rev(c.scopes, name, Len(c.scopes) - 1)

nix_resolve(name) == resolve_nix_symbol(Ctx, name)

\* add_symbol keeping the binding a scope already has (entry().or_insert)
nix_add_symbol_keep_first(c, name, symbol_id, scope_level) ==
    IF c.scopes = <<>> THEN c
    ELSE LET i == IF scope_level = "Local" THEN Len(c.scopes) ELSE 1
         IN IF name \in DOMAIN c.scopes[i] THEN c
            ELSE [c EXCEPT !.scopes[i] = Insert(@, name, symbol_id)]

\* NixResolutionContext::add_symbol
nix_add_symbol(c, name, symbol_id, scope_level) ==
    IF scope_level = "Local"
    THEN IF c.scopes # <<>>
         THEN [c EXCEPT !.scopes[Len(c.scopes)] = Insert(@, name, symbol_id),
                        !.nix_local[Len(c.scopes)] = @ \cup {name}]
         ELSE c
    ELSE IF c.scopes # <<>>
         THEN [c EXCEPT !.scopes[1] = Insert(@, name, symbol_id),
                        !.nix_local[1] = @ \ {name}]
         ELSE c

nix_clear_local_scope(c) ==
    IF c.scopes # <<>>
    THEN [c EXCEPT !.scopes[Len(c.scopes)] = EmptyMap,
                   !.nix_local[Len(c.scopes)] = {}]
    ELSE c

nix_enter_scope(c, scope_type) ==
    CASE scope_type = "Function" -> enter_function_scope(c, <<>>)
      [] scope_type = "Block" -> push_scope(c, "AttrSet", EmptyMap)
      [] scope_type = "Class" -> enter_attrset_scope(c, FALSE)
      [] scope_type = "Module" -> push_scope(c, "Global", EmptyMap)
      [] scope_type = "Global" -> push_scope(c, "Global", EmptyMap)
      [] scope_type = "Package" -> push_scope(c, "Global", EmptyMap)
      [] scope_type = "Namespace" -> enter_attrset_scope(c, FALSE)

nix_exit_scope(c) ==
    CASE TopType(c) = "LetIn" -> exit_let_scope(c)
      [] TopType(c) = "With" -> exit_with_scope(c)
      [] TopType(c) = "RecursiveAttrSet" -> exit_attrset_scope(c)
      [] TopType(c) = "Function" -> exit_function_scope(c)
      [] TopType(c) = "AttrSet" -> exit_attrset_scope(c)
      [] TopType(c) = "Global" ->
            IF Len(c.scopes) > 1 THEN pop_scope(c) ELSE c
      [] OTHER -> c

----------------------------------------------------------------------------
(* NixInheritanceResolver.  A SymbolId is its number; the resolver maps a   *)
(* name to SymbolId(name.len()) and an id back to "symbol_<id>".            *)

\* names given to the InheritanceResolver interface
NixTypeNames == {"a", "b", "cc"}

\* ids given to the resolver's own methods
NixSymbolIds == {1, 2, 3}

NixKinds == {"merge", "with", "composition", "extends"}

NixInhNew ==
    /\ merge_relationships = EmptyMap
    /\ with_relationships = EmptyMap
    /\ composition_relationships = EmptyMap
    /\ named_relation = {}

\* SymbolId(name.len() as u32)
name_to_id(name) == Len(name)

\* format!("symbol_{}", id.0)
id_to_name(id) == "symbol_" \o ToString(id)

\* map.entry(child).or_default().push(parent)
push_entry(m, child, parent) ==
    Insert(m, child,
           Append(IF child \in DOMAIN m THEN m[child] ELSE <<>>, parent))

RelationsRoom ==
    TotalBases(merge_relationships) + TotalBases(with_relationships)
        + TotalBases(composition_relationships) < MaxRelations

add_merge_relationship(child, parent) ==
    /\ merge_relationships' = push_entry(merge_relationships, child, parent)
    /\ UNCHANGED <<with_relationships, composition_relationships>>

add_with_relationship(scope, attr_set) ==
    /\ with_relationships' = push_entry(with_relationships, scope, attr_set)
    /\ UNCHANGED <<merge_relationships, composition_relationships>>

add_composition_relationship(composed, component) ==
    /\ composition_relationships' =
         push_entry(composition_relationships, composed, component)
    /\ UNCHANGED <<merge_relationships, with_relationships>>

nix_add_inheritance(child, parent, kind) ==
    LET child_id == name_to_id(child)
        parent_id == name_to_id(parent)
    IN CASE kind = "merge" -> add_merge_relationship(child_id, parent_id)
         [] kind = "with" -> add_with_relationship(child_id, parent_id)
         [] kind = "composition" ->
               add_composition_relationship(child_id, parent_id)
         [] OTHER -> add_merge_relationship(child_id, parent_id)

check_inheritance(child, parent) ==
    /\ child \in DOMAIN merge_relationships
    /\ \E i \in 1..Len(merge_relationships[child]) :
          merge_relationships[child][i] = parent

\* InheritanceResolver::is_subtype of NixInheritanceResolver
nix_is_subtype(child, parent) ==
    check_inheritance(name_to_id(child), name_to_id(parent))

\* the while loop of get_full_inheritance_chain
RECURSIVE chain_loop(_, _, _, _)
chain_loop(mr, chain, current, visited) ==
    IF current \in DOMAIN mr /\ mr[current] # <<>>
    THEN LET parent == mr[current][1]
         IN IF parent \notin visited
            THEN chain_loop(mr, Append(chain, parent), parent,
                            visited \cup {parent})
            ELSE chain
    ELSE chain

get_full_inheritance_chain(symbol) ==
    chain_loop(merge_relationships, <<symbol>>, symbol, {})

nix_get_inheritance_chain(type_name) ==
    LET chain == get_full_inheritance_chain(name_to_id(type_name))
    IN [i \in 1..Len(chain) |-> id_to_name(chain[i])]

----------------------------------------------------------------------------
(* Specifications of the three resolver components *)

CtxIs(c) ==
    /\ scopes = c.scopes
    /\ scope_types = c.scope_types
    /\ let_contexts = c.let_contexts
    /\ with_contexts = c.with_contexts
    /\ rec_contexts = c.rec_contexts
    /\ nix_local = c.nix_local

\* no function call is followed
NoCall == call = [fn |-> "none"] /\ result = <<>>

\* no client calls parse()
NoCaller == calls = 0 /\ room = 0

ParserIdle ==
    /\ walk = <<>>
    /\ counter = 0
    /\ symbols = <<>>
    /\ nextNode = 1
    /\ decls = {}
    /\ tree = EmptyMap
    /\ keep = FALSE
    /\ issued = {}
    /\ previous_run = <<>>
    /\ start = 0

\* PythonInheritanceResolver
InitPyInh == PyInhNew /\ PyCtxNew /\ CtxIs(NixCtxNone) /\ ParserIdle /\ NoCaller /\ NixInhNew /\ NoCall

AddInheritance ==
    \E child \in Classes, parent \in Classes, kind \in Kinds :
        add_inheritance(child, parent, kind)

AddClass ==
    \E class_name \in Classes, bases \in SeqsUpTo(Classes, MaxBasesArg) :
        add_class(class_name, bases)

NextPyInh == AddInheritance \/ AddClass

SpecPyInh == InitPyInh /\ [][NextPyInh]_vars

\* PythonInheritanceResolver with its method tables, on three classes
MethodClasses == {"C", "A", "B"}

MAddInheritance ==
    \E child \in MethodClasses, parent \in MethodClasses, kind \in Kinds :
        add_inheritance(child, parent, kind)

MAddClass ==
    \E class_name \in MethodClasses,
       bases \in SeqsUpTo(MethodClasses, MaxBasesArg) :
        add_class(class_name, bases)

AddTypeMethods ==
    \E type_name \in MethodClasses, methods \in MethodLists :
        add_class_methods(type_name, methods)

NextPyMethods == MAddInheritance \/ MAddClass \/ AddTypeMethods

SpecPyMethods == InitPyInh /\ [][NextPyMethods]_vars

\* PythonResolutionContext
InitPyCtx == PyInhNew /\ PyCtxNew /\ CtxIs(NixCtxNone) /\ ParserIdle /\ NoCaller /\ NixInhNew /\ NoCall

PyAddSymbol ==
    \E name \in PyKeys, id \in Ids, level \in ScopeLevels :
        py_add_symbol(name, id, level)

PyAddSymbolPython ==
    \E name \in PyKeys, id \in Ids, is_global \in BOOLEAN :
        add_symbol_python(name, id, is_global)

PyEnterScope == \E scope_type \in ScopeTypes : py_enter_scope(scope_type)

PyExitScope == py_exit_scope

PyClearLocalScope == py_clear_local_scope

NextPyCtx ==
    \/ PyAddSymbol
    \/ PyAddSymbolPython
    \/ PyEnterScope
    \/ PyExitScope
    \/ PyClearLocalScope

SpecPyCtx == InitPyCtx /\ [][NextPyCtx]_vars

\* NixResolutionContext
InitNixCtx == PyInhNew /\ PyCtxNew /\ CtxIs(NixCtxNew) /\ ParserIdle /\ NoCaller /\ NixInhNew /\ NoCall

NixRoom == Len(scopes) < NixMaxDepth

NixStep(c) == SetCtx(c) /\ UNCHANGED <<pyInhVars, pyCtxVars, nixParseVars, nixInhVars, callVars>>

\* names used by the clients of the context in SpecNixCtx
CtxNames == {"x"}

NixMaps == UNION {[S -> Ids] : S \in SUBSET CtxNames}

NixEnterLetScope == NixRoom /\ NixStep(enter_let_scope(Ctx))

NixExitLetScope == NixStep(exit_let_scope(Ctx))

NixEnterWithScope ==
    NixRoom /\ \E attr_symbols \in NixMaps :
                  NixStep(enter_with_scope(Ctx, attr_symbols))

NixExitWithScope == NixStep(exit_with_scope(Ctx))

NixEnterAttrsetScope ==
    NixRoom /\ \E is_recursive \in BOOLEAN :
                  NixStep(enter_attrset_scope(Ctx, is_recursive))

NixExitAttrsetScope == NixStep(exit_attrset_scope(Ctx))

NixEnterFunctionScope ==
    NixRoom /\ \E params \in SeqsUpTo(CtxNames \X Ids, 1) :
                  NixStep(enter_function_scope(Ctx, params))

NixExitFunctionScope == NixStep(exit_function_scope(Ctx))

NixAddRecursiveSymbol ==
    \E name \in CtxNames, id \in Ids :
        NixStep(add_recursive_symbol(Ctx, name, id))

NixAddSymbol ==
    \E name \in CtxNames, id \in Ids, level \in ScopeLevels :
        NixStep(nix_add_symbol(Ctx, name, id, level))

NixClearLocalScope == NixStep(nix_clear_local_scope(Ctx))

NixEnterScope ==
    NixRoom /\ \E scope_type \in GenericScopeTypes :
                  NixStep(nix_enter_scope(Ctx, scope_type))

NixExitScope == NixStep(nix_exit_scope(Ctx))

NextNixCtx ==
    \/ NixEnterLetScope
    \/ NixExitLetScope
    \/ NixEnterWithScope
    \/ NixExitWithScope
    \/ NixEnterAttrsetScope
    \/ NixExitAttrsetScope
    \/ NixEnterFunctionScope
    \/ NixExitFunctionScope
    \/ NixAddRecursiveSymbol
    \/ NixAddSymbol
    \/ NixClearLocalScope
    \/ NixEnterScope
    \/ NixExitScope

SpecNixCtx == InitNixCtx /\ [][NextNixCtx]_vars

----------------------------------------------------------------------------
(* Properties of PythonInheritanceResolver (SpecPyInh) *)

BasesOf(c) == IF c \in DOMAIN class_bases THEN class_bases[c] ELSE <<>>

\* class C(A, B), class A(X), class B(X), registered by add_inheritance
DiamondRegistered ==
    /\ BasesOf("C") = <<"A", "B">>
    /\ BasesOf("A") = <<"X">>
    /\ BasesOf("B") = <<"X">>
    /\ BasesOf("X") = <<>>

\* C1: with C registered with bases A then B, A with base X and B with base
\* X, get_inheritance_chain("C") is exactly [C, A, B, X].
C1_DiamondChain ==
    DiamondRegistered => get_inheritance_chain("C") = <<"C", "A", "B", "X">>

----------------------------------------------------------------------------
(* Properties of PythonResolutionContext (SpecPyCtx) *)

FunctionEntries == {i \in 1..Len(scope_stack) : scope_stack[i] = "Function"}

\* C2: whenever two or more Function scopes are on the stack, a name added
\* at Local level in an enclosing function that is still on the stack
\* resolves to that binding's id, unless a more local binding of the same
\* name exists.
C2_EnclosingVisible ==
    Cardinality(FunctionEntries) >= 2 =>
        \A i \in FunctionEntries :
            i < InnermostFunction(scope_stack) =>
                \A n \in DOMAIN py_frames[i].added :
                    (\A k \in (i+1)..Len(py_frames) :
                        n \notin DOMAIN py_frames[k].added)
                    => py_resolve(n) = py_frames[i].added[n]

\* an exit_scope step that pops a Function entry nested in another function
ExitsNestedFunction ==
    /\ scope_stack # <<>>
    /\ Last(scope_stack) = "Function"
    /\ \E i \in 1..(Len(scope_stack) - 1) : scope_stack[i] = "Function"
    /\ scope_stack' = Front(scope_stack)

\* C3: exit_scope() of a nested Function scope restores the enclosing
\* function's locals: every name that resolved to a Local-level id right
\* before the matching enter_scope(Function) resolves to the same id right
\* after the exit_scope().
C3_ExitRestoresLocals ==
    [][ExitsNestedFunction =>
          \A n \in DOMAIN Last(py_frames).saved :
              py_resolve_next(n) = Last(py_frames).saved[n]]_vars

Min(S) == CHOOSE x \in S : \A y \in S : x <= y

\* the id held by the first map of srcs that has the key name, else None
FirstSource(srcs, name) ==
    LET hits == {i \in 1..Len(srcs) : name \in DOMAIN srcs[i]}
    IN IF hits = {} THEN None ELSE srcs[Min(hits)][name]

\* C10: resolve of a name without a dot returns the id from the first of
\* the local, enclosing, module/global, imported and built-in maps that
\* contains the name, and None if none does; a Module- or Global-level
\* binding therefore shadows a Package-level import of the same name.
C10_LegbOrder ==
    \A name \in {q \in PyQueries : Len(q) = 1} :
        /\ py_resolve(name) =
             FirstSource(<<local_scope, enclosing_scope, global_scope,
                           imported_symbols, builtin_scope>>, name)
        /\ (/\ name \in DOMAIN global_scope
            /\ name \in DOMAIN imported_symbols
            /\ name \notin DOMAIN local_scope
            /\ name \notin DOMAIN enclosing_scope)
           => py_resolve(name) = global_scope[name]

\* a module-level binding and an import of the same name with another id,
\* inside a function whose enclosing function binds nothing of that name
C10_Witness ==
    /\ <<"x">> \in DOMAIN global_scope
    /\ <<"x">> \in DOMAIN imported_symbols
    /\ global_scope[<<"x">>] # imported_symbols[<<"x">>]
    /\ <<"x">> \notin DOMAIN local_scope
    /\ <<"x">> \notin DOMAIN enclosing_scope
    /\ Len(scope_stack) >= 1
    /\ py_resolve(<<"x">>) = global_scope[<<"x">>]

----------------------------------------------------------------------------
(* Properties of NixResolutionContext (SpecNixCtx) *)

Rev(s) == [i \in 1..Len(s) |-> s[Len(s) + 1 - i]]

IsKeyOf(maps, n) == \E i \in 1..Len(maps) : n \in DOMAIN maps[i]

\* C7: a with-context never shadows a lexical binding: a name added at
\* Local level to a scope still on the stack, which is also a key of an
\* active with-context, resolves to the (innermost) lexical binding's id.
C7_WithBelowLexical ==
    \A n \in CtxNames :
        (/\ \E i \in 1..Len(nix_local) : n \in nix_local[i]
         /\ IsKeyOf(with_contexts, n)
         /\ ~IsKeyOf(rec_contexts, n))
        => nix_resolve(n) = find_rev(scopes, n, Len(scopes))

\* C9: resolve returns the id from the first source that contains the name,
\* the sources being searched in the order: current scope, let contexts
\* innermost first, with contexts innermost first, rec contexts innermost
\* first, remaining scopes from inner to outer; None when none contains it.
C9_NixResolveOrder ==
    \A n \in CtxNames \cup {"y"} :
        nix_resolve(n) =
            FirstSource(<<Last(scopes)>> \o Rev(let_contexts)
                          \o Rev(with_contexts) \o Rev(rec_contexts)
                          \o Rev(Front(scopes)), n)

\* a with context, a rec context and an outer scope all hold x, the current
\* scope does not, and the with context decides
C9_Witness ==
    /\ "x" \notin DOMAIN Last(scopes)
    /\ with_contexts # <<>> /\ "x" \in DOMAIN Last(with_contexts)
    /\ rec_contexts # <<>> /\ "x" \in DOMAIN Last(rec_contexts)
    /\ Last(with_contexts)["x"] # Last(rec_contexts)["x"]
    /\ "x" \in DOMAIN scopes[1]
    /\ nix_resolve("x") = Last(with_contexts)["x"]

----------------------------------------------------------------------------
(* NixParser.parse.  The recursive walk is a stack of pending calls, walk,  *)
(* whose head is the call that runs next.  The syntax tree is an input: a   *)
(* node's kind, names and number of children are chosen when the walk       *)
(* reaches the node.  Nodes are numbered as they are met; decls records, for*)
(* each binding node, the node it is a child of and its attribute name.     *)
(*                                                                          *)
(* t = "node"         extract_symbols_from_node(node)                       *)
(* t = "binding"      process_binding(node) called by a let or attrset loop *)
(* t = "let_register" the add_symbol that follows process_binding in        *)
(*                    process_let_expression_advanced                       *)
(* t = "rec_binding"  one iteration of the second pass of                   *)
(*                    process_recursive_attribute_set_advanced              *)
(* t = "exit_..."     the exit call that ends a process_... function        *)
(*                                                                          *)
(* want restricts the kind of a node: "function" and "value" are the two    *)
(* cases process_binding tells apart, "expr" is any expression, "any" is a  *)
(* child of a node without an arm of its own.  role and owner say where the *)
(* node sits: the value of a binding of let/rec node owner, the body of let *)
(* node owner, or the body of a with whose environment is node owner;       *)
(* binding is the binding node a value belongs to.                          *)

Task(t, node, name, id, want, role, owner) ==
    [t |-> t, node |-> node, name |-> name, id |-> id, want |-> want,
     role |-> role, owner |-> owner, binding |-> 0]

NodeTask(node, want, role, owner) == Task("node", node, "", 0, want, role, owner)

\* the value expression of binding node `binding`
ValueTask(node, want, role, owner, binding) ==
    [NodeTask(node, want, role, owner) EXCEPT !.binding = binding]

KindAllowed(kind, want) ==
    CASE want = "function" -> kind = "function"
      [] want = "value" -> kind \notin {"function", "binding"}
      [] want = "expr" -> kind # "binding"
      [] OTHER -> TRUE

\* SymbolCounter::next_id after n earlier calls
next_id(n) == n + 1

\* ParserContext::current_scope_context of the context parse() installs; the
\* walk never enters a scope on it
current_scope_context == "Module"

\* The code given to parse(), as its syntax tree: tree[n] is what the source
\* text says about node n.  words is the text of the node as far as the
\* parser reads it: the attribute names of the bindings below a let or an
\* attribute set, the parameter names of a function, the name of a binding,
\* the text of a path literal.
Shape(kind, words, kids, value) ==
    [kind |-> kind, words |-> words, kids |-> kids, value |-> value]

\* the walk reads node n: on the first parse of a code the text is chosen
\* here, on a later parse of the same code it is what it was
Reveal(n, shape) ==
    IF ~keep THEN UNCHANGED tree
    ELSE IF n \in DOMAIN tree
    THEN tree[n] = shape /\ UNCHANGED tree
    ELSE tree' = Insert(tree, n, shape)

\* texts of the path literals of the input, in pieces
PathTexts == {<<"./", "p">>, <<"./", "path_0">>}

Room(k) == nextNode + k - 1 <= room

AtNode(kind) ==
    /\ walk # <<>>
    /\ Head(walk).t = "node"
    /\ KindAllowed(kind, Head(walk).want)

AtTask(t) == walk # <<>> /\ Head(walk).t = t

\* create_symbol; token and node say which node's range the caller passed
Symbol(id, name, kind, token, node, signature) ==
    [id |-> id, name |-> name, kind |-> kind,
     range |-> [token |-> token, node |-> node],
     signature |-> signature,
     scope_context |-> current_scope_context]

\* format!("{name} = <function>") and format!("{name} = <value>")
binding_signature(name, kind) ==
    IF kind = "Function" THEN <<name, " = <function>">>
    ELSE <<name, " = <value>">>

runVars == <<calls, room, keep, issued, previous_run, start>>

ParseUnchanged == UNCHANGED <<pyInhVars, pyCtxVars, nixInhVars, callVars>>

WalkUnchanged == ParseUnchanged /\ UNCHANGED runVars

\* walk_tree with the accumulator of the previous call still in place
walk_tree_symbols_kept == symbols

\* walk_tree: let mut symbols = Vec::new()
walk_tree_symbols == <<>>

\* LanguageParser::parse up to the call of extract_symbols_from_node on the
\* expression below the root node.  The caller hands in new code or the code
\* of the previous call once more; it keeps the symbols of the previous call.
Parse ==
    /\ walk = <<>>
    /\ calls >= 1
    /\ \E again \in BOOLEAN :
         IF again
         THEN /\ keep
              /\ previous_run' = <<[start |-> start, syms |-> symbols]>>
              /\ UNCHANGED <<tree, keep, room>>
         ELSE /\ room - (nextNode - 1) >= 1
              /\ room' = room - (nextNode - 1)
              /\ previous_run' = <<>>
              /\ tree' = EmptyMap
              /\ keep' = (calls > 1)
    /\ calls' = calls - 1
    /\ SetCtx(NixCtxNew)
    /\ symbols' = walk_tree_symbols
    /\ walk' = <<NodeTask(1, "expr", "root", 0)>>
    /\ nextNode' = 2
    /\ decls' = {}
    /\ issued' = issued \cup {symbols[i].id : i \in 1..Len(symbols)}
    /\ start' = counter
    /\ UNCHANGED counter
    /\ ParseUnchanged

\* process_binding on binding node `node`; rest is the work that follows
process_binding(node, name, role, owner, rest) ==
    \E value \in {"none", "function", "value"} :
        /\ value # "none" => Room(1)
        /\ Reveal(node, Shape("binding", <<name>>, 0, value))
        /\ symbols' = Append(symbols,
              LET kind == IF value = "function" THEN "Function" ELSE "Variable"
              IN Symbol(next_id(counter), name, kind, "identifier", node,
                        binding_signature(name, kind)))
        /\ counter' = counter + 1
        /\ walk' = (IF value = "none" THEN <<>>
                    ELSE <<ValueTask(nextNode, value, role, owner, node)>>) \o rest
        /\ nextNode' = IF value = "none" THEN nextNode ELSE nextNode + 1
        /\ UNCHANGED nixCtxVars
        /\ WalkUnchanged

ProcessBinding ==
    /\ AtTask("binding")
    /\ process_binding(Head(walk).node, Head(walk).name, Head(walk).role,
                       Head(walk).owner, Tail(walk))
    /\ UNCHANGED decls

\* the "binding" arm of extract_symbols_from_node
VisitBinding ==
    /\ AtNode("binding")
    /\ \E name \in NixNames :
         /\ decls' = decls \cup {[node |-> Head(walk).node, parent |-> 0,
                                  name |-> name, form |-> "loose"]}
         /\ process_binding(Head(walk).node, name, "plain", 0, Tail(walk))

BindingDecls(names, parent, form) ==
    {[node |-> nextNode + i - 1, parent |-> parent, name |-> names[i],
      form |-> form] : i \in 1..Len(names)}

\* process_let_expression_advanced: enter_let_scope, then the calls to come
LetTasks(names, has_body, let_node) ==
    [j \in 1..(2 * Len(names)) |->
        IF j % 2 = 1
        THEN Task("binding", nextNode + (j + 1) \div 2 - 1,
                  names[(j + 1) \div 2], 0, "", "let_rhs", let_node)
        ELSE Task("let_register", nextNode + j \div 2 - 1,
                  names[j \div 2], 0, "", "", let_node)]
    \o (IF has_body
        THEN <<NodeTask(nextNode + Len(names), "expr", "let_body", let_node)>>
        ELSE <<>>)
    \o <<Task("exit_let", let_node, "", 0, "", "", 0)>>

VisitLet ==
    /\ AtNode("let_expression")
    /\ \E names \in SeqsUpTo(NixNames, MaxBindings), has_body \in BOOLEAN :
         /\ Room(Len(names) + (IF has_body THEN 1 ELSE 0))
         /\ Reveal(Head(walk).node,
                   Shape("let_expression", names, IF has_body THEN 1 ELSE 0, ""))
         /\ SetCtx(enter_let_scope(Ctx))
         /\ walk' = LetTasks(names, has_body, Head(walk).node) \o Tail(walk)
         /\ nextNode' = nextNode + Len(names) + (IF has_body THEN 1 ELSE 0)
         /\ decls' = decls \cup BindingDecls(names, Head(walk).node, "let")
    /\ UNCHANGED <<counter, symbols>>
    /\ WalkUnchanged

\* if let Some(symbol) = symbols.last() { ctx.add_symbol(name, symbol.id, Local) }
let_register(c, name, syms) ==
    IF syms # <<>> THEN nix_add_symbol(c, name, Last(syms).id, "Local") ELSE c

LetRegister ==
    /\ AtTask("let_register")
    /\ SetCtx(let_register(Ctx, Head(walk).name, symbols))
    /\ walk' = Tail(walk)
    /\ UNCHANGED <<counter, symbols, nextNode, decls, tree>>
    /\ WalkUnchanged

ExitLet ==
    /\ AtTask("exit_let")
    /\ SetCtx(exit_let_scope(Ctx))
    /\ walk' = Tail(walk)
    /\ UNCHANGED <<counter, symbols, nextNode, decls, tree>>
    /\ WalkUnchanged

\* process_attribute_set
VisitAttrset ==
    /\ AtNode("attrset")
    /\ \E names \in SeqsUpTo(NixNames, MaxBindings) :
         /\ Room(Len(names))
         /\ Reveal(Head(walk).node, Shape("attrset", names, 0, ""))
         /\ walk' = [i \in 1..Len(names) |->
                        Task("binding", nextNode + i - 1, names[i], 0, "",
                             "plain", Head(walk).node)] \o Tail(walk)
         /\ nextNode' = nextNode + Len(names)
         /\ decls' = decls \cup BindingDecls(names, Head(walk).node, "attrset")
    /\ UNCHANGED <<counter, symbols, nixCtxVars>>
    /\ WalkUnchanged

\* first pass of process_recursive_attribute_set_advanced
RECURSIVE first_pass(_, _, _, _)
first_pass(c, names, first_id, i) ==
    IF i > Len(names) THEN c
    ELSE first_pass(add_recursive_symbol(c, names[i], first_id + i - 1),
                    names, first_id, i + 1)

VisitRecAttrset ==
    /\ AtNode("rec_attrset")
    /\ \E names \in SeqsUpTo(NixNames, MaxBindings) :
         /\ Room(Len(names))
         /\ Reveal(Head(walk).node, Shape("rec_attrset", names, 0, ""))
         /\ SetCtx(first_pass(enter_attrset_scope(Ctx, TRUE), names,
                              next_id(counter), 1))
         /\ counter' = counter + Len(names)
         /\ walk' = [i \in 1..Len(names) |->
                        Task("rec_binding", nextNode + i - 1, names[i],
                             next_id(counter) + i - 1, "", "rec_rhs",
                             Head(walk).node)]
                    \o <<Task("exit_attrset", Head(walk).node, "", 0, "", "", 0)>>
                    \o Tail(walk)
         /\ nextNode' = nextNode + Len(names)
         /\ decls' = decls \cup BindingDecls(names, Head(walk).node, "rec")
    /\ UNCHANGED symbols
    /\ WalkUnchanged

\* the second pass minting an id of its own for the symbol
second_pass_id_fresh(preminted, ctr) == next_id(ctr)

\* id given to the symbol of a rec attribute in the second pass
second_pass_id(preminted, ctr) == preminted

\* one iteration of the second pass
RecBinding ==
    /\ AtTask("rec_binding")
    /\ \E value \in {"none", "function", "value"} :
        /\ value # "none" => Room(1)
        /\ Reveal(Head(walk).node,
                  Shape("binding", <<Head(walk).name>>, 0, value))
        /\ symbols' = Append(symbols,
              LET kind == IF value = "function" THEN "Function" ELSE "Variable"
              IN Symbol(second_pass_id(Head(walk).id, counter), Head(walk).name,
                        kind, "binding", Head(walk).node,
                        binding_signature(Head(walk).name, kind)))
        /\ walk' = (IF value = "none" THEN <<>>
                    ELSE <<ValueTask(nextNode, value, "rec_rhs", Head(walk).owner,
                                     Head(walk).node)>>) \o Tail(walk)
        /\ nextNode' = IF value = "none" THEN nextNode ELSE nextNode + 1
    /\ UNCHANGED <<counter, decls, nixCtxVars>>
    /\ WalkUnchanged

ExitAttrset ==
    /\ AtTask("exit_attrset")
    /\ SetCtx(exit_attrset_scope(Ctx))
    /\ walk' = Tail(walk)
    /\ UNCHANGED <<counter, symbols, nextNode, decls, tree>>
    /\ WalkUnchanged

\* parameter lists of the functions in the input: none (a node without an
\* identifier or formals child), `a: ...`, `b: ...` and `{ a, b }: ...`
ParamLists == {<<>>, <<"a">>, <<"b">>, <<"a", "b">>}

\* process_lambda_function; the parameters consume ids, no symbol is emitted
VisitFunction ==
    /\ AtNode("function")
    /\ \E params \in ParamLists, has_body \in BOOLEAN :
         /\ has_body => Room(1)
         /\ Reveal(Head(walk).node,
                   Shape("function", params, IF has_body THEN 1 ELSE 0, ""))
         /\ SetCtx(enter_function_scope(Ctx,
                [i \in 1..Len(params) |-> <<params[i], next_id(counter) + i - 1>>]))
         /\ counter' = counter + Len(params)
         /\ walk' = (IF has_body
                     THEN <<NodeTask(nextNode, "expr", "plain", 0)>> ELSE <<>>)
                    \o <<Task("exit_function", Head(walk).node, "", 0, "", "", 0)>>
                    \o Tail(walk)
         /\ nextNode' = IF has_body THEN nextNode + 1 ELSE nextNode
    /\ UNCHANGED <<symbols, decls>>
    /\ WalkUnchanged

ExitFunction ==
    /\ AtTask("exit_function")
    /\ SetCtx(exit_function_scope(Ctx))
    /\ walk' = Tail(walk)
    /\ UNCHANGED <<counter, symbols, nextNode, decls, tree>>
    /\ WalkUnchanged

\* the map process_with_expression hands to enter_with_scope
with_attr_symbols == EmptyMap

\* process_with_expression: the children are the environment and the body
VisitWith ==
    /\ AtNode("with_expression")
    /\ \E k \in 0..2 :
         /\ Room(k)
         /\ Reveal(Head(walk).node, Shape("with_expression", <<>>, k, ""))
         /\ SetCtx(enter_with_scope(Ctx, with_attr_symbols))
         /\ walk' = (IF k >= 1
                     THEN <<NodeTask(nextNode, "expr", "with_env", 0)>> ELSE <<>>)
                    \o (IF k = 2
                        THEN <<NodeTask(nextNode + 1, "expr", "with_body", nextNode)>>
                        ELSE <<>>)
                    \o <<Task("exit_with", Head(walk).node, "", 0, "", "", 0)>>
                    \o Tail(walk)
         /\ nextNode' = nextNode + k
    /\ UNCHANGED <<counter, symbols, decls>>
    /\ WalkUnchanged

ExitWith ==
    /\ AtTask("exit_with")
    /\ SetCtx(exit_with_scope(Ctx))
    /\ walk' = Tail(walk)
    /\ UNCHANGED <<counter, symbols, nextNode, decls, tree>>
    /\ WalkUnchanged

\* format!("path_{}", symbols.len())
path_name(syms) == "path_" \o ToString(Len(syms))

\* process_path_literal
VisitPath ==
    /\ AtNode("path_expression")
    /\ \E path_str \in PathTexts :
         /\ Reveal(Head(walk).node, Shape("path_expression", path_str, 0, ""))
         /\ symbols' = Append(symbols,
              Symbol(next_id(counter), path_name(symbols), "Constant", "node",
                     Head(walk).node, <<"path = ">> \o path_str))
    /\ counter' = counter + 1
    /\ walk' = Tail(walk)
    /\ UNCHANGED <<nextNode, decls, nixCtxVars>>
    /\ WalkUnchanged

\* the default arm of extract_symbols_from_node, and
\* process_string_interpolation, which walks the interpolation children
VisitOther ==
    /\ AtNode("other")
    /\ \E k \in 0..MaxKids :
         /\ Room(k)
         /\ Reveal(Head(walk).node, Shape("other", <<>>, k, ""))
         /\ walk' = [i \in 1..k |-> NodeTask(nextNode + i - 1, "any", "plain", 0)]
                    \o Tail(walk)
         /\ nextNode' = nextNode + k
    /\ UNCHANGED <<counter, symbols, decls, nixCtxVars>>
    /\ WalkUnchanged

\* one call of parse()
InitNixParse ==
    /\ PyInhNew /\ PyCtxNew /\ CtxIs(NixCtxNone) /\ ParserIdle /\ NixInhNew /\ NoCall
    /\ calls = 1 /\ room = MaxNodes

\* several calls of parse() with one SymbolCounter
InitNixReparse ==
    /\ PyInhNew /\ PyCtxNew /\ CtxIs(NixCtxNone) /\ ParserIdle /\ NixInhNew /\ NoCall
    /\ calls = MaxParses /\ room = MaxReparseNodes

NextNixParse ==
    \/ Parse
    \/ ProcessBinding
    \/ VisitBinding
    \/ VisitLet
    \/ LetRegister
    \/ ExitLet
    \/ VisitAttrset
    \/ VisitRecAttrset
    \/ RecBinding
    \/ ExitAttrset
    \/ VisitFunction
    \/ ExitFunction
    \/ VisitWith
    \/ ExitWith
    \/ VisitPath
    \/ VisitOther

SpecNixParse == InitNixParse /\ [][NextNixParse]_vars

SpecNixReparse == InitNixReparse /\ [][NextNixParse]_vars

----------------------------------------------------------------------------
(* Properties of the NixParser walk (SpecNixParse) *)

\* the bindings that are direct children of node parent
BindingsOf(parent) == {b \in decls : b.parent = parent}

DistinctNames(bs) == \A b1 \in bs, b2 \in bs : b1.name = b2.name => b1 = b2

\* the walk is about to enter a node in the given position
Entering(role) ==
    /\ walk # <<>>
    /\ Head(walk).t = "node"
    /\ Head(walk).role = role

\* ids of the symbols emitted for binding node n
EmittedIds(n) ==
    {symbols[i].id : i \in {j \in 1..Len(symbols) : symbols[j].range.node = n}}

\* ids the pending second-pass iterations will emit for binding node n
PendingIds(n) ==
    {walk[i].id : i \in {j \in 1..Len(walk) :
                            walk[j].t = "rec_binding" /\ walk[j].node = n}}

\* C4: at the start of the right-hand side of any binding of a rec set with
\* pairwise distinct attribute names, every attribute name of the set, later
\* ones included, resolves to the id of the Symbol emitted for that attribute.
C4_RecForwardReferences ==
    (Entering("rec_rhs") /\ DistinctNames(BindingsOf(Head(walk).owner))) =>
        \A b \in BindingsOf(Head(walk).owner) :
            /\ nix_resolve(b.name) # None
            /\ EmittedIds(b.node) \cup PendingIds(b.node) = {nix_resolve(b.name)}

\* at the right-hand side of the first of two rec attributes, the second one,
\* whose symbol is still to be emitted, resolves to the id it will carry
C4_Witness ==
    /\ Entering("rec_rhs")
    /\ DistinctNames(BindingsOf(Head(walk).owner))
    /\ \E b \in BindingsOf(Head(walk).owner) :
         /\ EmittedIds(b.node) = {}
         /\ PendingIds(b.node) = {nix_resolve(b.name)}
         /\ nix_resolve(b.name) # None
    /\ \E b \in BindingsOf(Head(walk).owner) :
         /\ b.node = Head(walk).binding
         /\ EmittedIds(b.node) = {nix_resolve(b.name)}

\* C5: at the right-hand side of a binding of a let expression, every
\* sibling binding name of that let, later ones included, resolves.
C5_LetSiblingsResolve ==
    (Entering("let_rhs") /\ DistinctNames(BindingsOf(Head(walk).owner))) =>
        \A b \in BindingsOf(Head(walk).owner) :
            b.node # Head(walk).binding => nix_resolve(b.name) # None

\* C6: for every direct binding n = v of a let expression, the id registered
\* under n for the `in` body is the id of the Symbol emitted for n itself,
\* whatever symbols v emitted.
C6_LetRegistersOwnSymbol ==
    (Entering("let_body") /\ DistinctNames(BindingsOf(Head(walk).owner))) =>
        \A b \in BindingsOf(Head(walk).owner) :
            EmittedIds(b.node) = {nix_resolve(b.name)}

\* C8: in the body of `with e; body`, e an attribute set, every attribute
\* name of e resolves to the id of that attribute's symbol.
C8_WithAttributesResolve ==
    Entering("with_body") =>
        LET attrs == {b \in BindingsOf(Head(walk).owner) :
                         b.form \in {"attrset", "rec"}}
        IN DistinctNames(attrs) =>
              \A b \in attrs : EmittedIds(b.node) = {nix_resolve(b.name)}

----------------------------------------------------------------------------
(* Termination of the Python resolution order (SpecPyInh) *)

\* C14: get_inheritance_chain(T) terminates for every sequence of
\* add_inheritance calls, hierarchies with a cycle or with a class that is
\* its own base included: no query is a call that never returns.
C14_ChainTerminates ==
    \A T \in Classes : get_inheritance_chain(T) # Diverges

----------------------------------------------------------------------------
(* NixInheritanceResolver: SpecNixInh has every method that changes the     *)
(* resolver, SpecNixInhNamed is the resolver used only through the          *)
(* InheritanceResolver interface.                                           *)

NixInhUnchanged ==
    UNCHANGED <<pyInhVars, pyCtxVars, nixCtxVars, nixParseVars, callVars>>

NixAddInheritance ==
    /\ RelationsRoom
    /\ \E child \in NixTypeNames, parent \in NixTypeNames, kind \in NixKinds :
         /\ nix_add_inheritance(child, parent, kind)
         /\ named_relation' = named_relation \cup {<<child, parent>>}
    /\ NixInhUnchanged

NixAddMergeRelationship ==
    /\ RelationsRoom
    /\ \E child \in NixSymbolIds, parent \in NixSymbolIds :
         add_merge_relationship(child, parent)
    /\ UNCHANGED named_relation
    /\ NixInhUnchanged

NixAddWithRelationship ==
    /\ RelationsRoom
    /\ \E scope \in NixSymbolIds, attr_set \in NixSymbolIds :
         add_with_relationship(scope, attr_set)
    /\ UNCHANGED named_relation
    /\ NixInhUnchanged

NixAddCompositionRelationship ==
    /\ RelationsRoom
    /\ \E composed \in NixSymbolIds, component \in NixSymbolIds :
         add_composition_relationship(composed, component)
    /\ UNCHANGED named_relation
    /\ NixInhUnchanged

InitNixInh == PyInhNew /\ PyCtxNew /\ CtxIs(NixCtxNone) /\ ParserIdle /\ NoCaller /\ NixInhNew /\ NoCall

NextNixInh ==
    \/ NixAddInheritance
    \/ NixAddMergeRelationship
    \/ NixAddWithRelationship
    \/ NixAddCompositionRelationship

SpecNixInh == InitNixInh /\ [][NextNixInh]_vars

NextNixInhNamed == NixAddInheritance

SpecNixInhNamed == InitNixInh /\ [][NextNixInhNamed]_vars

----------------------------------------------------------------------------
(* Properties of NixInheritanceResolver *)

\* pairs joined by a path of at most n + 1 pairs of the relation R
RECURSIVE Closure(_, _)
Closure(R, n) ==
    IF n = 0 THEN R
    ELSE LET C == Closure(R, n - 1)
         IN C \cup {<<x[1][1], x[2][2]>> :
                       x \in {y \in C \X R : y[1][2] = y[2][1]}}

Acyclic(R) == \A p \in Closure(R, Cardinality(R)) : p[1] # p[2]

NoRepeats(chain) ==
    \A i \in 1..Len(chain), j \in 1..Len(chain) :
        chain[i] = chain[j] => i = j

\* C13: with the resolver used through the InheritanceResolver interface
\* only, and the relation named by the add_inheritance calls free of cycles,
\* get_inheritance_chain(T) of every type T of that relation has T as its
\* first element and contains no element twice.
C13_NixChainFromName ==
    Acyclic(named_relation) =>
        \A T \in {p[1] : p \in named_relation} \cup {p[2] : p \in named_relation} :
            LET chain == nix_get_inheritance_chain(T)
            IN chain[1] = T /\ NoRepeats(chain)

\* C15: for every merge relation built by add_merge_relationship, cycles and
\* self-loops included, get_full_inheritance_chain(s) starts at s, follows
\* first parents only, and no SymbolId occurs in it twice.
C15_FullChainNoRepeats ==
    \A s \in NixSymbolIds :
        LET chain == get_full_inheritance_chain(s)
        IN /\ chain[1] = s
           /\ \A i \in 2..Len(chain) :
                 /\ chain[i - 1] \in DOMAIN merge_relationships
                 /\ chain[i] = merge_relationships[chain[i - 1]][1]
           /\ NoRepeats(chain)

----------------------------------------------------------------------------
(* Properties of the method tables of PythonInheritanceResolver             *)
(* (SpecPyMethods)                                                          *)

MethodsOf(c) == IF c \in DOMAIN class_methods THEN class_methods[c] ELSE <<>>

\* the method vectors of the classes of chain, one after the other
RECURSIVE MethodsAlong(_, _)
MethodsAlong(chain, i) ==
    IF i > Len(chain) THEN <<>>
    ELSE MethodsOf(chain[i]) \o MethodsAlong(chain, i + 1)

FirstPos(seq, e) == Min({i \in 1..Len(seq) : seq[i] = e})

\* C16: wherever the resolution order of T is defined, resolve_method(T, m)
\* is the first class of get_inheritance_chain(T) whose method list has m
\* (None if no class has it), and get_all_methods(T) lists exactly the
\* methods m with resolve_method(T, m) not None, each once, in the order of
\* their first occurrence along the chain.
C16_MethodLookupOrder ==
    \A T \in Classes :
        LET chain == get_inheritance_chain(T)
            all == get_all_methods(T)
            along == MethodsAlong(chain, 1)
        IN chain # Diverges =>
            /\ \A m \in Methods \cup {"baz"} :
                 LET hits == {i \in 1..Len(chain) :
                                 Contains(MethodsOf(chain[i]), m)}
                 IN resolve_method(T, m) =
                      IF hits = {} THEN NoClass ELSE <<chain[Min(hits)]>>
            /\ {all[i] : i \in 1..Len(all)} =
                 {m \in Methods \cup {"baz"} : resolve_method(T, m) # NoClass}
            /\ NoRepeats(all)
            /\ \A i \in 1..Len(all), j \in 1..Len(all) :
                 i < j => FirstPos(along, all[i]) < FirstPos(along, all[j])

\* C has a base, both have methods, foo is listed by both and bar only by
\* the base: foo resolves to C, bar to the base, and both are listed once
C16_Witness ==
    /\ Len(BasesOf("C")) = 1 /\ BasesOf("C")[1] # "C"
    /\ MethodsOf("C") = <<"foo">>
    /\ MethodsOf(BasesOf("C")[1]) = <<"foo", "bar">>
    /\ resolve_method("C", "foo") = <<"C">>
    /\ resolve_method("C", "bar") = <<BasesOf("C")[1]>>
    /\ get_all_methods("C") = <<"foo", "bar">>

\* C17: after any interleaving of add_inheritance, add_class and
\* add_type_methods, get_inheritance_chain(T) is the chain computed from the
\* current base table: the cache never answers with a chain computed before
\* the hierarchy changed.
C17_NoStaleChain ==
    \A T \in Classes :
        get_inheritance_chain(T) =
            calculate_mro_at(class_bases, EmptyMap, T, Cardinality(Classes))

\* C got its second base after it had a chain of its own, methods are
\* registered, and the chain of C shows both bases
C17_Witness ==
    /\ Len(BasesOf("C")) = 2
    /\ BasesOf("A") # <<>>
    /\ class_methods # EmptyMap
    /\ get_inheritance_chain("C") # Diverges
    /\ Len(get_inheritance_chain("C")) = 3

----------------------------------------------------------------------------
(* Properties of NixParser.parse over the calls of one caller               *)
(* (SpecNixReparse) and of the ranges it emits                              *)

SymbolIds(syms) == [i \in 1..Len(syms) |-> syms[i].id]

IdsOf(syms) == {syms[i].id : i \in 1..Len(syms)}

\* ids handed to enter_function_scope for the parameters of the functions
\* whose body the walk is in
ParameterIds ==
    UNION {{scopes[k][n] : n \in (DOMAIN scopes[k]) \ nix_local[k]} :
              k \in {j \in 1..Len(scopes) : scope_types[j] = "Function"}}

\* ids minted in a first pass for rec attributes whose symbol is to come
PremintedIds ==
    [i \in 1..Len(SelectSeq(walk, LAMBDA t : t.t = "rec_binding")) |->
        SelectSeq(walk, LAMBDA t : t.t = "rec_binding")[i].id]

\* C11: within one SymbolCounter run, over any sequence of parse calls, no
\* two emitted Symbols carry the same id; an id consumed for a lambda
\* parameter is given to no symbol, and an id minted in the first pass of a
\* rec set is given to one symbol only.
C11_UniqueIds ==
    /\ NoRepeats(SymbolIds(symbols) \o PremintedIds)
    /\ (IdsOf(symbols) \cup IdsOf([i \in 1..Len(PremintedIds) |->
                                      [id |-> PremintedIds[i]]]))
          \cap issued = {}
    /\ ParameterIds \cap (IdsOf(symbols) \cup issued) = {}

\* a call has returned symbols, a later call has emitted a rec attribute
\* and its counter has also served lambda parameters
C11_Witness ==
    /\ walk = <<>>
    /\ issued # {}
    /\ \E i \in 1..Len(symbols) : symbols[i].range.token = "binding"
    /\ counter > Cardinality(issued) + Len(symbols)

\* C18: parsing the same code again, whatever the parser parsed before,
\* yields a symbol vector equal to that of the previous parse in length,
\* order, name, kind, range, signature and scope_context, the ids differing
\* by the offset of the counter's starting values only.
C18_ParseDeterministic ==
    (walk = <<>> /\ previous_run # <<>>) =>
        LET before == previous_run[1]
        IN /\ Len(symbols) = Len(before.syms)
           /\ \A i \in 1..Len(symbols) :
                /\ i <= Len(before.syms)
                /\ [symbols[i] EXCEPT !.id = 0] = [before.syms[i] EXCEPT !.id = 0]
                /\ symbols[i].id - start = before.syms[i].id - before.start

\* the second parse of a code with a binding and a path literal has
\* returned, on a parser that parsed another code before the first one
C18_Witness ==
    /\ walk = <<>>
    /\ previous_run # <<>>
    /\ Len(symbols) >= 2
    /\ \E i \in 1..Len(symbols) : symbols[i].kind = "Constant"
    /\ Cardinality(issued) > Len(previous_run[1].syms)
    /\ start # previous_run[1].start

\* C19: every Symbol emitted for a binding (of a let expression, of an
\* attribute set or of a recursive attribute set) has the range of the
\* binding's identifier token, not of the whole binding or of its value.
C19_BindingRangeIsIdentifier ==
    \A i \in 1..Len(symbols) :
        symbols[i].kind \in {"Variable", "Function"} =>
            symbols[i].range.token = "identifier"

\* the source text covered by a range, in pieces: the identifier of a
\* binding, the whole binding, or the whole node
RangeText(range) ==
    IF range.token = "binding" THEN tree[range.node].words \o <<" = ">>
    ELSE tree[range.node].words

\* C20: for every Symbol S emitted from source B, the Constant symbols of
\* path literals included, the text of B covered by S.range contains S.name.
C20_RangeCoversName ==
    keep => \A i \in 1..Len(symbols) :
               Contains(RangeText(symbols[i].range), symbols[i].name)

----------------------------------------------------------------------------
(* The resolution contexts driven by their clients and by the parser *)

\* which component a state belongs to: no Nix context exists beside a
\* PythonResolutionContext, and only the parser has a caller of parse()
IsPyCtx == room = 0 /\ scopes = <<>>

IsNixCtx == room = 0 /\ scopes # <<>>

IsNixParse == room >= 1

InitDeclarations == InitPyCtx \/ InitNixCtx \/ InitNixParse

NextDeclarations ==
    \/ IsPyCtx /\ NextPyCtx
    \/ IsNixCtx /\ NextNixCtx
    \/ IsNixParse /\ NextNixParse

SpecDeclarations == InitDeclarations /\ [][NextDeclarations]_vars

\* the map PythonResolutionContext::add_symbol inserts into
PyTarget(l, g, imp, scope_level) ==
    CASE scope_level = "Local" -> l
      [] scope_level = "Package" -> imp
      [] OTHER -> g

\* no scope that resolve consults before the target binds the name
PyUnshadowed(name, scope_level) ==
    CASE scope_level = "Local" -> TRUE
      [] scope_level = "Package" ->
            /\ name \notin DOMAIN local_scope
            /\ name \notin DOMAIN enclosing_scope
            /\ name \notin DOMAIN global_scope
      [] OTHER ->
            /\ name \notin DOMAIN local_scope
            /\ name \notin DOMAIN enclosing_scope

\* index in scopes of the map NixResolutionContext::add_symbol inserts into
NixTarget(c, scope_level) == IF scope_level = "Local" THEN Len(c.scopes) ELSE 1

NixUnshadowed(c, name, scope_level) ==
    \/ NixTarget(c, scope_level) = Len(c.scopes)
    \/ /\ \A i \in 2..Len(c.scopes) : name \notin DOMAIN c.scopes[i]
       /\ \A i \in 1..Len(c.let_contexts) : name \notin DOMAIN c.let_contexts[i]
       /\ \A i \in 1..Len(c.with_contexts) : name \notin DOMAIN c.with_contexts[i]
       /\ \A i \in 1..Len(c.rec_contexts) : name \notin DOMAIN c.rec_contexts[i]

\* the context of the next state
CtxNext ==
    [scopes |-> scopes', scope_types |-> scope_types',
     let_contexts |-> let_contexts', with_contexts |-> with_contexts',
     rec_contexts |-> rec_contexts', nix_local |-> nix_local']

\* a step of PythonResolutionContext::add_symbol on a name the target scope
\* binds to another id leaves the scope binding the new id, which resolve
\* returns
PyRebind ==
    \A name \in PyKeys, id \in Ids, level \in ScopeLevels :
        (/\ py_add_symbol(name, id, level)
         /\ name \in DOMAIN PyTarget(local_scope, global_scope,
                                     imported_symbols, level)
         /\ PyTarget(local_scope, global_scope, imported_symbols,
                     level)[name] # id)
        => /\ PyTarget(local_scope', global_scope', imported_symbols',
                       level)[name] = id
           /\ PyUnshadowed(name, level) => py_resolve_next(name) = id

\* the same for NixResolutionContext::add_symbol, called by a client or by
\* process_let_expression_advanced
NixRebind ==
    \A name \in NixNames \cup CtxNames, id \in 1..(MaxNodes + 1),
       level \in ScopeLevels :
        (/\ scopes # <<>>
         /\ SetCtx(nix_add_symbol(Ctx, name, id, level))
         /\ name \in DOMAIN scopes[NixTarget(Ctx, level)]
         /\ scopes[NixTarget(Ctx, level)][name] # id)
        => /\ scopes'[NixTarget(Ctx, level)][name] = id
           /\ NixUnshadowed(Ctx, name, level)
                 => resolve_nix_symbol(CtxNext, name) = id

\* the walk of one parse() is over
ParseDone == IsNixParse /\ walk = <<>> /\ nextNode > 1

\* the Symbols emitted for the declaration at binding node n
EmittedFor(n) == {i \in 1..Len(symbols) : symbols[i].range.node = n}

OnePerDeclaration ==
    ParseDone => \A d \in decls : Cardinality(EmittedFor(d.node)) = 1

----------------------------------------------------------------------------
(* Properties of PythonResolutionContext::exit_scope (SpecPyCtx) *)

\* an exit_scope step that pops a Function entry
ExitsFunction ==
    /\ scope_stack # <<>>
    /\ Last(scope_stack) = "Function"
    /\ scope_stack' = Front(scope_stack)

----------------------------------------------------------------------------
(* PythonResolutionContext::resolve called once on a context that holds     *)
(* plain and dotted names                                                   *)

\* the names bound in the context: x, y and the dotted name x.y
PyResolveKeys == {<<"x">>, <<"y">>, <<"x", "y">>}

PyResolveQueries ==
    {<<"x">>, <<"y">>, <<"x", "y">>, <<"y", "x">>, <<"x", "x">>,
     <<"z", "x">>, <<"x", "y", "x">>, <<"y", "y", "y">>}

PyScopeMaps(keys) == UNION {[S -> Ids] : S \in SUBSET keys}

\* the state left by the add_symbol calls of a client, and the name asked
InitPyResolve ==
    /\ PyInhNew /\ CtxIs(NixCtxNone) /\ ParserIdle /\ NoCaller /\ NixInhNew
    /\ local_scope \in PyScopeMaps(PyResolveKeys)
    /\ global_scope \in PyScopeMaps(PyResolveKeys)
    /\ imported_symbols \in PyScopeMaps({<<"y">>})
    /\ enclosing_scope = EmptyMap
    /\ builtin_scope = EmptyMap
    /\ scope_stack = <<>>
    /\ py_frames = <<>>
    /\ \E name \in PyResolveQueries : call = [fn |-> "resolve", name |-> name]
    /\ result = <<>>

Returns(value) ==
    /\ result = <<>>
    /\ result' = <<value>>
    /\ UNCHANGED <<call, pyInhVars, pyCtxVars, nixCtxVars, nixParseVars,
                   nixInhVars>>

PyResolve == call.fn = "resolve" /\ Returns(py_resolve(call.name))

NextPyResolve == PyResolve

SpecPyResolve == InitPyResolve /\ [][NextPyResolve]_vars

\* the string is a key of one of the five scope maps
PyBoundWhole(name) ==
    \/ name \in DOMAIN local_scope
    \/ name \in DOMAIN enclosing_scope
    \/ name \in DOMAIN global_scope
    \/ name \in DOMAIN imported_symbols
    \/ name \in DOMAIN builtin_scope

\* C22: resolve on a qualified name a.b (exactly one dot) that is not itself
\* a key of any scope map returns resolve(b) when resolve(a) is Some and
\* None when resolve(a) is None; a name with two or more dots that is not a
\* key of any scope map resolves to None.
C22_QualifiedResolve ==
    (call.fn = "resolve" /\ result # <<>> /\ ~PyBoundWhole(call.name)) =>
        /\ Len(call.name) = 2 =>
              result[1] = IF py_resolve(<<call.name[1]>>) # None
                          THEN py_resolve(<<call.name[2]>>)
                          ELSE None
        /\ Len(call.name) >= 3 => result[1] = None

\* x.y was asked with x and y bound to different ids and x.y unbound, and the
\* id of y came back
C22_Witness ==
    /\ call.fn = "resolve" /\ result # <<>>
    /\ call.name = <<"x", "y">>
    /\ ~PyBoundWhole(call.name)
    /\ py_resolve(<<"x">>) # None
    /\ result[1] = py_resolve(<<"y">>)
    /\ result[1] # None
    /\ result[1] # py_resolve(<<"x">>)

----------------------------------------------------------------------------
(* NixBehavior (src/src/parsing/nix/behavior.rs).  A string is the sequence *)
(* of its characters.                                                       *)

PathChars == {".", "/", "a"}

ModuleChars == {".", "a", "b"}

\* Option<&str>
NoModule == <<>>

ImportingModules ==
    {NoModule, <<<<>>>>, <<<<"b">>>>, <<<<"b", ".", "b">>>>, <<<<"a", ".", "b">>>>}

\* str::starts_with
starts_with(str, prefix) ==
    Len(str) >= Len(prefix) /\ SubSeq(str, 1, Len(prefix)) = prefix

\* str::trim_start_matches: the prefix is removed as often as it is there
RECURSIVE trim_start_matches(_, _)
trim_start_matches(str, prefix) ==
    IF starts_with(str, prefix)
    THEN trim_start_matches(SubSeq(str, Len(prefix) + 1, Len(str)), prefix)
    ELSE str

\* str::replace of one character
replace(str, from, to) ==
    [i \in 1..Len(str) |-> IF str[i] = from THEN to ELSE str[i]]

\* str::split(sep).collect(): the pieces between the separators, the empty
\* ones included; cur is the piece being read
RECURSIVE split_from(_, _, _, _)
split_from(str, sep, i, cur) ==
    IF i > Len(str) THEN <<cur>>
    ELSE IF str[i] = sep THEN <<cur>> \o split_from(str, sep, i + 1, <<>>)
    ELSE split_from(str, sep, i + 1, Append(cur, str[i]))

split(str, sep) == split_from(str, sep, 1, <<>>)

\* .filter(|s| !s.is_empty())
RECURSIVE filter_non_empty(_)
filter_non_empty(parts) ==
    IF parts = <<>> THEN <<>>
    ELSE (IF Head(parts) = <<>> THEN <<>> ELSE <<Head(parts)>>)
         \o filter_non_empty(Tail(parts))

\* [String]::join
RECURSIVE join(_, _)
join(parts, sep) ==
    IF parts = <<>> THEN <<>>
    ELSE IF Len(parts) = 1 THEN parts[1]
    ELSE parts[1] \o <<sep>> \o join(Tail(parts), sep)

DotSlash == <<".", "/">>

DotDotSlash == <<".", ".", "/">>

\* while path_remaining.starts_with("../") { pop; skip three characters }
RECURSIVE navigate_up(_, _)
navigate_up(module_parts, path_remaining) ==
    IF starts_with(path_remaining, DotDotSlash)
    THEN navigate_up(IF module_parts # <<>> THEN Front(module_parts)
                     ELSE module_parts,
                     SubSeq(path_remaining, 4, Len(path_remaining)))
    ELSE [module_parts |-> module_parts, path_remaining |-> path_remaining]

\* the "../" arm going up one component only, however many "../" there are
resolve_parent_once(import_path, importing_mod) ==
    LET up == navigate_up(<<>>, import_path)
        module_parts == Front(split(importing_mod, "."))
    IN join(module_parts
            \o (IF up.path_remaining # <<>>
                THEN filter_non_empty(
                         split(replace(up.path_remaining, "/", "."), "."))
                ELSE <<>>), ".")

\* the "../" arm: the module path the import is resolved to
resolve_parent(import_path, importing_mod) ==
    LET up == navigate_up(split(importing_mod, "."), import_path)
    IN join(up.module_parts
            \o (IF up.path_remaining # <<>>
                THEN filter_non_empty(
                         split(replace(up.path_remaining, "/", "."), "."))
                ELSE <<>>), ".")

\* the "./" arm
resolve_relative(import_path, importing_mod) ==
    LET relative_path == trim_start_matches(import_path, DotSlash)
    IN IF importing_mod = <<>> THEN replace(relative_path, "/", ".")
       ELSE importing_mod \o <<".">> \o replace(relative_path, "/", ".")

import_matches_symbol(import_path, symbol_module_path, importing_module) ==
    IF import_path = symbol_module_path THEN TRUE
    ELSE IF importing_module # NoModule
    THEN IF starts_with(import_path, DotSlash)
         THEN resolve_relative(import_path, importing_module[1])
                 = symbol_module_path
         ELSE IF starts_with(import_path, DotDotSlash)
         THEN resolve_parent(import_path, importing_module[1])
                 = symbol_module_path
         ELSE FALSE
    ELSE FALSE

ImportPaths == SeqsUpTo(PathChars, MaxPathLen)

SymbolModulePaths ==
    SeqsUpTo(ModuleChars, MaxModulePathLen) \cup {<<"a", "/", "a">>}

InitImport ==
    /\ PyInhNew /\ PyCtxNew /\ CtxIs(NixCtxNone) /\ ParserIdle /\ NoCaller
    /\ NixInhNew
    /\ \E p \in ImportPaths, s \in SymbolModulePaths, m \in ImportingModules :
         call = [fn |-> "import_matches_symbol", import_path |-> p,
                 symbol_module_path |-> s, importing_module |-> m]
    /\ result = <<>>

ImportMatchesSymbol ==
    /\ call.fn = "import_matches_symbol"
    /\ Returns(import_matches_symbol(call.import_path, call.symbol_module_path,
                                     call.importing_module))

NextImport == ImportMatchesSymbol

SpecImport == InitImport /\ [][NextImport]_vars

----------------------------------------------------------------------------
(* Properties of NixBehavior::import_matches_symbol (SpecImport) *)

\* the number of "../" the path starts with
RECURSIVE LeadingParents(_)
LeadingParents(path) ==
    IF starts_with(path, DotDotSlash)
    THEN 1 + LeadingParents(SubSeq(path, 4, Len(path)))
    ELSE 0

IsRelative(p) == starts_with(p, DotSlash) \/ starts_with(p, DotDotSlash)

\* what follows the leading "./" or the leading "../"s
Remainder(p) ==
    IF starts_with(p, DotSlash) THEN SubSeq(p, 3, Len(p))
    ELSE SubSeq(p, 3 * LeadingParents(p) + 1, Len(p))

\* rest placed below the module path base
Below(base, rest) ==
    IF base = <<>> THEN rest
    ELSE IF rest = <<>> THEN base
    ELSE base \o <<".">> \o rest

\* the module path of import path p resolved against module m: a leading
\* "./" puts the rest of p below m, each leading "../" removes one trailing
\* component of m, and '/' becomes '.'
ResolvedAgainst(p, m) ==
    LET k == LeadingParents(p)
        parts == split(m, ".")
        kept == SubSeq(parts, 1, IF Len(parts) > k THEN Len(parts) - k ELSE 0)
    IN Below(IF starts_with(p, DotSlash) THEN m ELSE join(kept, "."),
             replace(Remainder(p), "/", "."))

\* p equals s, or m is given and p resolved against m equals s
MatchesAsStated(p, s, m) ==
    \/ p = s
    \/ /\ m # NoModule
       /\ IsRelative(p)
       /\ ResolvedAgainst(p, m[1]) = s

\* the remainder is made of names without '.', separated by single '/'
PlainRemainder(p) ==
    LET parts == split(Remainder(p), "/")
    IN \A i \in 1..Len(parts) :
          parts[i] # <<>> /\ \A j \in 1..Len(parts[i]) : parts[i][j] # "."

Returned == call.fn = "import_matches_symbol" /\ result # <<>>

----------------------------------------------------------------------------
(* NixBehavior::configure_symbol *)

SymbolNames == {<<"a">>, <<"b", "c">>}

SymbolPaths == {<<>>, <<"a">>, <<"l", ".", "u">>}

\* Option<&str> and Option<CompactString>: None, or Some of a string
OptionalPaths == {<<>>} \cup {<<p>> : p \in SymbolPaths}

Visibilities == {"Public", "Private"}

ConfiguredKinds == {"Variable", "Function", "Constant"}

format_module_path(base_path, symbol_name) ==
    IF base_path = <<>> THEN symbol_name
    ELSE base_path \o <<".">> \o symbol_name

\* configure_symbol storing the path it is given, without the symbol name
configure_symbol_bare_path(symbol, module_path) ==
    [symbol EXCEPT !.visibility = "Public",
                   !.module_path = IF module_path # <<>> THEN module_path
                                   ELSE IF @ = <<>> THEN <<symbol.name>>
                                   ELSE @]

configure_symbol(symbol, module_path) ==
    LET with_path ==
            IF module_path # <<>>
            THEN [symbol EXCEPT !.module_path =
                     <<format_module_path(module_path[1], symbol.name)>>]
            ELSE symbol
        public == [with_path EXCEPT !.visibility = "Public"]
    IN IF public.module_path = <<>>
       THEN [public EXCEPT !.module_path = <<symbol.name>>]
       ELSE public

InitConfigure ==
    /\ PyInhNew /\ PyCtxNew /\ CtxIs(NixCtxNone) /\ ParserIdle /\ NoCaller
    /\ NixInhNew
    /\ \E name \in SymbolNames, kind \in ConfiguredKinds,
          visibility \in Visibilities, old \in OptionalPaths,
          module_path \in OptionalPaths :
         call = [fn |-> "configure_symbol",
                 symbol |-> [name |-> name, kind |-> kind,
                             visibility |-> visibility, module_path |-> old],
                 module_path |-> module_path]
    /\ result = <<>>

ConfigureSymbol ==
    /\ call.fn = "configure_symbol"
    /\ Returns(configure_symbol(call.symbol, call.module_path))

NextConfigure == ConfigureSymbol

SpecConfigure == InitConfigure /\ [][NextConfigure]_vars

\* C24: after configure_symbol(sym, Some(p)), sym.module_path is p, '.' and
\* sym.name (sym.name alone when p is empty) and sym.visibility is Public;
\* after configure_symbol(sym, None), module_path is unchanged when it was
\* present and is sym.name otherwise; name and kind are never changed.
C24_ConfigureSymbol ==
    (call.fn = "configure_symbol" /\ result # <<>>) =>
        LET before == call.symbol
            after == result[1]
        IN /\ after.name = before.name
           /\ after.kind = before.kind
           /\ call.module_path # <<>> =>
                 /\ after.module_path =
                       <<IF call.module_path[1] = <<>> THEN before.name
                         ELSE call.module_path[1] \o <<".">> \o before.name>>
                 /\ after.visibility = "Public"
           /\ call.module_path = <<>> =>
                 after.module_path = IF before.module_path # <<>>
                                     THEN before.module_path
                                     ELSE <<before.name>>

\* a private symbol that had a module path was configured with a non-empty
\* parent path: the path was replaced and ends in the symbol name
C24_Witness ==
    /\ call.fn = "configure_symbol" /\ result # <<>>
    /\ call.module_path = <<<<"l", ".", "u">>>>
    /\ call.symbol.module_path = <<<<"a">>>>
    /\ call.symbol.visibility = "Private"
    /\ call.symbol.name = <<"b", "c">>
    /\ result[1].module_path = <<<<"l", ".", "u", ".", "b", "c">>>>
    /\ result[1].visibility = "Public"

----------------------------------------------------------------------------
(* CParserAudit (src/src/parsing/c/audit.rs) *)

NodeKinds == {"translation_unit", "declaration", "comment"}

\* the u16 kind ids of the grammar
KindIds == {1, 2}

\* HashMap<String, u16>
GrammarNodes == UNION {[S -> KindIds] : S \in SUBSET NodeKinds}

\* the f64 returned, as the fraction numerator / denominator
coverage_percentage(audit) ==
    IF DOMAIN audit.grammar_nodes = {}
    THEN [numerator |-> 0, denominator |-> 1]
    ELSE [numerator |-> Cardinality(audit.implemented_nodes) * 100,
          denominator |-> Cardinality(DOMAIN audit.grammar_nodes)]

\* any value of the struct, whose fields are public
InitAudit ==
    /\ PyInhNew /\ PyCtxNew /\ CtxIs(NixCtxNone) /\ ParserIdle /\ NoCaller
    /\ NixInhNew
    /\ \E grammar_nodes \in GrammarNodes, implemented_nodes \in SUBSET NodeKinds :
         call = [fn |-> "coverage_percentage",
                 audit |-> [grammar_nodes |-> grammar_nodes,
                            implemented_nodes |-> implemented_nodes]]
    /\ result = <<>>

CoveragePercentage ==
    /\ call.fn = "coverage_percentage"
    /\ Returns(coverage_percentage(call.audit))

NextAudit == CoveragePercentage

SpecAudit == InitAudit /\ [][NextAudit]_vars

\* C25: coverage_percentage() lies in [0, 100] for every audit value, and
\* equals 100 whenever every node kind of grammar_nodes is also in
\* implemented_nodes.
C25_CoverageInRange ==
    (call.fn = "coverage_percentage" /\ result # <<>>) =>
        LET c == result[1]
        IN /\ 0 <= c.numerator
           /\ c.numerator <= 100 * c.denominator
           /\ DOMAIN call.audit.grammar_nodes \subseteq call.audit.implemented_nodes
                 => c.numerator = 100 * c.denominator

----------------------------------------------------------------------------
(* Shape of the NixResolutionContext stacks (SpecNixCtx) *)

\* the number of entries of scope_types of the given type
CountType(type) ==
    Cardinality({i \in 1..Len(scope_types) : scope_types[i] = type})

\* C26: in every reachable state of NixResolutionContext, scopes and
\* scope_types have the same length, that length is at least 1 with a Global
\* entry at the bottom, and the let, with and rec context stacks have as many
\* entries as scope_types has LetIn, With and RecursiveAttrSet entries.
C26_StacksAgree ==
    /\ Len(scopes) = Len(scope_types)
    /\ Len(scope_types) >= 1
    /\ scope_types[1] = "Global"
    /\ Len(let_contexts) = CountType("LetIn")
    /\ Len(with_contexts) = CountType("With")
    /\ Len(rec_contexts) = CountType("RecursiveAttrSet")

\* a with scope inside a let scope, both with their context entries, and a
\* binding made in the with scope
C26_Witness ==
    /\ scope_types = <<"Global", "LetIn", "With">>
    /\ Len(let_contexts) = 1
    /\ Len(with_contexts) = 1
    /\ DOMAIN scopes[3] # {}

----------------------------------------------------------------------------
(* The resolution context at the end of NixParser::parse (SpecNixParse) *)

\* parse has walked the whole tree and returns
ParseReturns == walk = <<>> /\ nextNode > 1

\* C27: when parse returns, the resolution context has exactly one scope, of
\* type Global, and empty let, with and rec context stacks: every scope
\* entered during the walk has been exited.
C27_ContextRestored ==
    ParseReturns =>
        /\ Len(scopes) = 1
        /\ scope_types = <<"Global">>
        /\ let_contexts = <<>>
        /\ with_contexts = <<>>
        /\ rec_contexts = <<>>

\* parse returned from a tree that has a let expression and a recursive
\* attribute set, with the Symbols of their bindings emitted
C27_Witness ==
    /\ ParseReturns
    /\ \E d1 \in decls, d2 \in decls :
         /\ d1.form = "let" /\ d2.form = "rec"
         /\ EmittedFor(d1.node) # {} /\ EmittedFor(d2.node) # {}
    /\ scope_types = <<"Global">>

----------------------------------------------------------------------------
(* NixInheritanceResolver::is_subtype (SpecNixInhNamed) *)

\* C28: is_subtype(c, p) is true only if an earlier add_inheritance call
\* named c as child and p as parent; relationships registered for other
\* names never make is_subtype(c, p) true.
C28_SubtypeOnlyIfNamed ==
    \A c \in NixTypeNames, p \in NixTypeNames :
        nix_is_subtype(c, p) => <<c, p>> \in named_relation

----------------------------------------------------------------------------
(* Frame of NixResolutionContext::clear_local_scope (SpecNixCtx) *)

\* the names whose binding in the global scope was made by add_symbol with
\* ScopeLevel Module, Package or Global, and which resolve to that binding
ResolvedGlobally ==
    {n \in DOMAIN scopes[1] :
        n \notin nix_local[1] /\ nix_resolve(n) = scopes[1][n]}

\* C29: clear_local_scope() removes only Local-level bindings of the
\* innermost scope: a name that was added with ScopeLevel Module, Package or
\* Global resolves to the same id after clear_local_scope() as before it.
C29_ClearKeepsGlobals ==
    [][SetCtx(nix_clear_local_scope(Ctx)) =>
          \A n \in ResolvedGlobally :
              resolve_nix_symbol(CtxNext, n) = nix_resolve(n)]_vars

----------------------------------------------------------------------------
(* Order of the ids in the vector NixParser::parse returns (SpecNixParse) *)

\* C30: within one parse call, the ids of the emitted symbols strictly
\* increase along the returned vector, also for recursive attribute sets
\* whose attribute values contain nested bindings.
C30_IdsIncrease ==
    \A i \in 1..Len(symbols), j \in 1..Len(symbols) :
        i < j => symbols[i].id < symbols[j].id

====
